---- MODULE Spec2Model ----
(***************************************************************************)
(* A model of wikipy: the Wikipedia provider (src/provider/wikipedia.py)   *)
(* and the token store (src/db/handlers.py, src/db/models.py).             *)
(*                                                                         *)
(* Conventions.                                                            *)
(*   - A Python Optional is a sequence of length 0 (None) or 1 (a value).  *)
(*   - Environment values, tokens and URLs are TLA+ strings; search terms  *)
(*     are sequences of characters, so that str.join is computed and not   *)
(*     assumed.                                                            *)
(*   - `call` is what the most recent operation did: the log lines it      *)
(*     emitted, the HTTP requests it sent, the response it received and    *)
(*     how it ended (a returned value or a raised exception).              *)
(***************************************************************************)
EXTENDS Integers, Sequences, FiniteSets, TLC

VARIABLES
    environ,                \* os.environ: WM_CLIENT_ID, WM_CLIENT_SECRET, DEBUG
    token,                  \* Wikipedia.token
    rows,                   \* the rows of the token table, in rowid order
    now,                    \* int(time.time())
    decoded,                \* an AccessTokenResponse built from a token body, or None
    expires_read,           \* the last value read from decoded.expires_at, or None
    call,                   \* the most recent operation and what it did
    token_init,             \* history: Wikipedia.token at construction
    rows_before,            \* history: the rows when the most recent operation began
    decoded_at,             \* history: the time at which `decoded` was built
    search_params,          \* a WikipediaSearchParams a caller built, or None
    serialized,             \* the last value read from search_params.as_dict, or None
    inserts_since_delete    \* history: create_token calls since the last delete_all_tokens

vars == <<environ, token, rows, now, decoded, expires_read, call,
          token_init, rows_before, decoded_at, search_params, serialized,
          inserts_since_delete>>

(***************************************************************************)
(* Bounds of the model.                                                    *)
(***************************************************************************)
MaxRows == 2
MaxTerms == 2
MaxTime == 3

(***************************************************************************)
(* Python values.                                                          *)
(***************************************************************************)
None == <<>>
Some(x) == <<x>>

\* bool(s) of an Optional[str]: None and "" are falsy.
Truthy(o) == o # None /\ o[1] # ""

(***************************************************************************)
(* Input sets.                                                             *)
(***************************************************************************)
EnvValues == {None, Some(""), Some("id")}
DebugValues == {None, Some("True")}
TokenValues == {None, Some(""), Some("abc")}
Words == {<<"p", "y">>, <<"c">>, <<>>}
Limits == {2, 5}
ExpiresIns == {1, 2}
Locations == {"https://en.wikipedia.org/wiki/A", "https://en.wikipedia.org/wiki/B"}

RECURSIVE SeqsUpTo(_, _)
SeqsUpTo(S, n) ==
    IF n = 0 THEN {<<>>}
    ELSE LET shorter == SeqsUpTo(S, n - 1)
         IN  shorter \cup {Append(s, x) : s \in shorter, x \in S}

\* The term lists a WikipediaSearchParams is built from.
TermLists == SeqsUpTo(Words, MaxTerms)

\* The term lists the search operations are called with.
Queries == {<< <<"p", "y">> >>, << <<"p", "y">>, <<"c">> >>}


(***************************************************************************)
(* The HTTP transport (httpx), as the provider uses it.                    *)
(***************************************************************************)
auth_url == "https://meta.wikimedia.org/w/rest.php/oauth2/access_token"
api_url == "https://api.wikimedia.org/core/v1/wikipedia/en/"
random_url == "https://en.wikipedia.org/wiki/Special:Random"
SEARCH_PAGES == "search/page"
SEARCH_TITLES == "search/title"

\* The reason phrase httpx derives from the status code.
reason_phrase(status_code) ==
    CASE status_code = 200 -> "OK"
      [] status_code = 302 -> "Found"
      [] status_code = 401 -> "Unauthorized"
      [] status_code = 404 -> "Not Found"
      [] status_code = 500 -> "Internal Server Error"
      [] OTHER -> ""

Response(status_code, location, json) ==
    [status_code |-> status_code, reason_phrase |-> reason_phrase(status_code),
     location |-> location, json |-> json]

\* What the token endpoint may answer.
AuthResponses ==
    {Response(200, None,
              Some([access_token |-> "abc", token_type |-> "Bearer", expires_in |-> e]))
        : e \in ExpiresIns}
    \cup {Response(s, None, None) : s \in {401, 500}}

\* What the search endpoints may answer.
SearchResponses ==
    {Response(200, None, Some([pages |-> <<"Python">>]))}
    \cup {Response(s, None, None) : s \in {404, 500}}

\* What the random-article URL may answer.
RandomResponses ==
    {Response(302, Some(l), None) : l \in Locations}
    \cup {Response(s, None, None) : s \in {200, 404, 500}}

\* What the target of a redirect answers, were the redirect followed.
ArticleResponses == {Response(200, None, None)}

\* Mutant of is_error: only client errors count.
is_client_error_only(status_code) == status_code >= 400 /\ status_code <= 499

\* Mutant of is_error: a redirect counts as an error too.
is_error_or_redirect(status_code) == status_code >= 300 /\ status_code <= 599

\* httpx.Response.is_error: a 4xx or 5xx status.
is_error(status_code) == status_code >= 400 /\ status_code <= 599

\* httpx.Response.has_redirect_location.
has_redirect_location(resp) ==
    resp.status_code \in {301, 302, 303, 307, 308} /\ resp.location # None

\* Mutant of follow_redirects: the client follows redirects.
follow_redirects_on == TRUE

\* httpx.Client(base_url=...) is built without follow_redirects: the default, False.
follow_redirects == FALSE

Request(method, url, params, headers, data) ==
    [method |-> method, url |-> url, params |-> params, headers |-> headers, data |-> data]

\* client.get / client.post: the requests sent and the response handed back, when
\* upstream answers `resp` and the redirect target would answer `next`.
client_send(request, resp, next) ==
    IF follow_redirects /\ has_redirect_location(resp)
    THEN [sent |-> <<request, Request("GET", resp.location[1], None, {}, None)>>,
          response |-> next]
    ELSE [sent |-> <<request>>, response |-> resp]

(***************************************************************************)
(* Logging.                                                                *)
(***************************************************************************)
LogRecord(level, msg, args) == [level |-> level, msg |-> msg, args |-> args]

\* httpx.Response.raise_for_status: the response itself on a 2xx status, an
\* HTTPStatusError on any other.
raise_for_status(resp) ==
    IF resp.status_code >= 200 /\ resp.status_code <= 299
    THEN [exc |-> None, result |-> Some(resp)]
    ELSE [exc |-> Some("HTTPStatusError"), result |-> None]

\* The end of every provider operation, once `sr` (the requests sent, the response
\* received) is known:
\*     if resp.is_error:
\*         logger.error(f"Error: {resp.status_code} - {resp.reason_phrase}")
\*         return resp.raise_for_status()
\*     <tail: what a successful call still logs and prints>
\*     return resp
Finish(op, args, log, sr, upstream, tail, printed) ==
    LET resp == sr.response
    IN  IF is_error(resp.status_code)
        THEN LET r == raise_for_status(resp)
             IN  [op |-> op, args |-> args,
                  log |-> Append(log, LogRecord("ERROR",
                                                "Error: {status_code} - {reason_phrase}",
                                                <<resp.status_code, resp.reason_phrase>>)),
                  requests |-> sr.sent, upstream |-> Some(upstream),
                  response |-> Some(resp),
                  exc |-> r.exc, result |-> r.result, printed |-> None]
        ELSE [op |-> op, args |-> args, log |-> log \o tail,
              requests |-> sr.sent, upstream |-> Some(upstream),
              response |-> Some(resp),
              exc |-> None, result |-> Some(resp), printed |-> printed]

\* An operation that raised before any request was sent.
Raised(op, args, log, exc) ==
    [op |-> op, args |-> args, log |-> log, requests |-> <<>>, upstream |-> None,
     response |-> None, exc |-> exc, result |-> None, printed |-> None]

\* A token-store operation: no HTTP, a returned value.
Returned(op, args, log, result) ==
    [op |-> op, args |-> args, log |-> log, requests |-> <<>>, upstream |-> None,
     response |-> None, exc |-> None, result |-> result, printed |-> None]

(***************************************************************************)
(* The provider: class Wikipedia.                                          *)
(***************************************************************************)
ProviderOps == {"get_access_token", "search_titles", "search_articles",
                "get_random_article"}

\* Wikipedia.debug: os.getenv("DEBUG", False) in [True, "True"]
debug == environ.DEBUG = Some("True")

\* Mutant of get_credentials: only a missing (None) variable is rejected.
get_credentials_none_only(env) ==
    IF env.WM_CLIENT_ID = None \/ env.WM_CLIENT_SECRET = None
    THEN [exc |-> Some("ValueError"), value |-> None]
    ELSE [exc |-> None,
          value |-> Some([client_id |-> env.WM_CLIENT_ID[1],
                          client_secret |-> env.WM_CLIENT_SECRET[1]])]

\* Wikipedia.get_credentials
get_credentials(env) ==
    IF ~Truthy(env.WM_CLIENT_ID) \/ ~Truthy(env.WM_CLIENT_SECRET)
    THEN [exc |-> Some("ValueError"), value |-> None]
    ELSE [exc |-> None,
          value |-> Some([client_id |-> env.WM_CLIENT_ID[1],
                          client_secret |-> env.WM_CLIENT_SECRET[1]])]

\* Mutant of provider_frame: a successful get_access_token keeps the new token.
provider_frame_keeping_token ==
    /\ token' = IF call'.op = "get_access_token" /\ call'.exc = None
                THEN Some(call'.result[1].json[1].access_token)
                ELSE token
    /\ rows' = rows
    /\ inserts_since_delete' = inserts_since_delete

\* No provider operation assigns self.token or touches the token store.
provider_frame ==
    /\ token' = token
    /\ rows' = rows
    /\ inserts_since_delete' = inserts_since_delete

\* Wikipedia.get_access_token
get_access_token ==
    /\ \E resp \in AuthResponses :
          LET log == <<LogRecord("DEBUG", "Authenticating client credentials", <<>>)>>
              creds == get_credentials(environ)
          IN  call' =
                IF creds.exc # None
                THEN Raised("get_access_token", None, log, creds.exc)
                ELSE LET request ==
                             Request("POST", auth_url, None, {},
                                     Some([grant_type |-> "client_credentials",
                                           client_id |-> creds.value[1].client_id,
                                           client_secret |-> creds.value[1].client_secret]))
                     IN  Finish("get_access_token", None, log,
                                client_send(request, resp, resp), resp, <<>>, None)
    /\ rows_before' = rows
    /\ provider_frame
    /\ UNCHANGED <<environ, now, decoded, expires_read, token_init, decoded_at,
                   search_params, serialized>>

(***************************************************************************)
(* Search: WikipediaSearchParams, search_titles, search_articles.          *)
(***************************************************************************)
RECURSIVE join_reversed(_, _)
\* Mutant of join: the items are joined last to first.
join_reversed(sep, items) ==
    IF items = <<>> THEN <<>>
    ELSE IF Len(items) = 1 THEN items[1]
    ELSE join_reversed(sep, Tail(items)) \o sep \o items[1]

RECURSIVE join(_, _)
\* sep.join(items): the items in order, `sep` between each two.
join(sep, items) ==
    IF items = <<>> THEN <<>>
    ELSE IF Len(items) = 1 THEN items[1]
    ELSE items[1] \o sep \o join(sep, Tail(items))

\* WikipediaSearchParams(search_terms=terms, limit=limit)
WikipediaSearchParams(terms, limit) == [search_terms |-> terms, limit |-> limit]

\* WikipediaSearchParams.as_dict
as_dict(self) == [q |-> join(<<"+">>, self.search_terms), limit |-> self.limit]

\* A caller builds a WikipediaSearchParams.
new_params ==
    /\ \E terms \in TermLists, limit \in Limits :
          search_params' = Some(WikipediaSearchParams(terms, limit))
    /\ serialized' = None
    /\ UNCHANGED <<environ, token, rows, now, decoded, expires_read, call, token_init,
                   rows_before, decoded_at, inserts_since_delete>>

\* The caller reads search_params.as_dict.
read_as_dict ==
    /\ search_params # None
    /\ serialized' = Some(as_dict(search_params[1]))
    /\ UNCHANGED <<environ, token, rows, now, decoded, expires_read, call, token_init,
                   rows_before, decoded_at, search_params, inserts_since_delete>>

\* Mutant of auth_headers: only a missing (None) token counts as no token.
auth_headers_none_only(tok) ==
    IF tok = None
    THEN [headers |-> {},
          log |-> <<LogRecord("WARNING", "No access token found.", <<>>)>>]
    ELSE [headers |-> {<<"Authorization", "Bearer " \o tok[1]>>}, log |-> <<>>]

\* headers = {}
\* if not self.token: logger.warning("No access token found.")
\* else: headers = {"Authorization": f"Bearer {self.token}"}
auth_headers(tok) ==
    IF ~Truthy(tok)
    THEN [headers |-> {},
          log |-> <<LogRecord("WARNING", "No access token found.", <<>>)>>]
    ELSE [headers |-> {<<"Authorization", "Bearer " \o tok[1]>>}, log |-> <<>>]

\* The body shared by search_titles and search_articles, which differ in the
\* endpoint and in the debug line.
search(op, endpoint, debug_line, terms, limit, resp) ==
    LET params == WikipediaSearchParams(terms, limit)
        auth == auth_headers(token)
        log == Append(auth.log, debug_line)
        request == Request("GET", api_url \o endpoint, Some(as_dict(params)),
                           auth.headers, None)
    IN  Finish(op, [terms |-> terms, limit |-> limit], log,
               client_send(request, resp, resp), resp, <<>>,
               IF debug THEN resp.json ELSE None)

\* Wikipedia.search_titles
search_titles ==
    /\ \E terms \in Queries, limit \in Limits, resp \in SearchResponses :
          call' = search("search_titles", SEARCH_TITLES,
                         LogRecord("DEBUG", "Searching Wikipedia", <<>>),
                         terms, limit, resp)
    /\ rows_before' = rows
    /\ provider_frame
    /\ UNCHANGED <<environ, now, decoded, expires_read, token_init, decoded_at,
                   search_params, serialized>>

\* Wikipedia.search_articles
search_articles ==
    /\ \E terms \in Queries, limit \in Limits, resp \in SearchResponses :
          call' = search("search_articles", SEARCH_PAGES,
                         LogRecord("DEBUG", "Searching Wikipedia for: {}",
                                   <<join(<<",">>, terms)>>),
                         terms, limit, resp)
    /\ rows_before' = rows
    /\ provider_frame
    /\ UNCHANGED <<environ, now, decoded, expires_read, token_init, decoded_at,
                   search_params, serialized>>

\* Wikipedia.get_random_article
get_random_article ==
    /\ \E resp \in RandomResponses, next \in ArticleResponses :
          LET log == <<LogRecord("DEBUG", "Getting a random page", <<>>)>>
              request == Request("GET", random_url, None, {}, None)
              sr == client_send(request, resp, next)
          IN  call' = Finish("get_random_article", None, log, sr, resp,
                             <<LogRecord("DEBUG", "Random page: {}",
                                         <<sr.response.location>>)>>,
                             None)
    /\ rows_before' = rows
    /\ provider_frame
    /\ UNCHANGED <<environ, now, decoded, expires_read, token_init, decoded_at,
                   search_params, serialized>>

(***************************************************************************)
(* The token store: db/handlers.py over the Token table of db/models.py.   *)
(***************************************************************************)
\* What callers pass to create_token.
TokenInputs ==
    {[access_token |-> "abc", refresh_token |-> r, expires_at |-> 5] : r \in {"", "ref"}}

\* Token.id, an INTEGER PRIMARY KEY: the engine assigns the largest id in use
\* plus one, and 1 in an empty table.
RECURSIVE max_id(_)
max_id(rs) ==
    IF rs = <<>> THEN 0
    ELSE LET m == max_id(Tail(rs)) IN IF Head(rs).id > m THEN Head(rs).id ELSE m

\* Token(**kwargs), once added, committed and refreshed.
Token(kwargs, rs) ==
    [id |-> max_id(rs) + 1, access_token |-> kwargs.access_token,
     refresh_token |-> kwargs.refresh_token, expires_at |-> kwargs.expires_at]

\* create_token
create_token ==
    /\ Len(rows) < MaxRows
    /\ \E kwargs \in TokenInputs :
          LET stored == Token(kwargs, rows)
          IN  /\ rows' = Append(rows, stored)
              /\ call' = Returned("create_token", kwargs,
                                  <<LogRecord("INFO", "Created token {}", <<stored.id>>)>>,
                                  Some(stored))
    /\ rows_before' = rows
    /\ inserts_since_delete' = inserts_since_delete + 1
    /\ UNCHANGED <<environ, token, now, decoded, expires_read, token_init, decoded_at,
                   search_params, serialized>>

RECURSIVE delete_loop_counting_from_second(_, _)
\* Mutant of delete_loop: the first row is deleted but not counted.
delete_loop_counting_from_second(tokens, st) ==
    IF tokens = <<>> THEN st
    ELSE delete_loop_counting_from_second(Tail(tokens),
            [log |-> Append(st.log, LogRecord("INFO", "Deleting token {}",
                                              <<Head(tokens).id>>)),
             deleted |-> st.deleted \cup {Head(tokens).id},
             count |-> IF st.deleted = {} THEN st.count ELSE st.count + 1])

RECURSIVE delete_loop(_, _)
\* for token in tokens:
\*     logger.info(f"Deleting token {token.id}"); session.delete(token); count += 1
delete_loop(tokens, st) ==
    IF tokens = <<>> THEN st
    ELSE delete_loop(Tail(tokens),
            [log |-> Append(st.log, LogRecord("INFO", "Deleting token {}",
                                              <<Head(tokens).id>>)),
             deleted |-> st.deleted \cup {Head(tokens).id},
             count |-> st.count + 1])

\* Mutant of session_commit: the deletions are never committed.
session_commit_missing(rs, deleted) == rs

\* session.commit(): the rows marked deleted leave the table.
session_commit(rs, deleted) == SelectSeq(rs, LAMBDA r : r.id \notin deleted)

\* delete_all_tokens
delete_all_tokens ==
    /\ LET tokens == rows       \* session.exec(select(Token))
           st == delete_loop(tokens, [log |-> <<>>, deleted |-> {}, count |-> 0])
       IN  /\ rows' = session_commit(rows, st.deleted)
           /\ call' = Returned("delete_all_tokens", None,
                               Append(st.log, LogRecord("INFO", "Deleted {} tokens",
                                                        <<st.count>>)),
                               None)
    /\ rows_before' = rows
    /\ inserts_since_delete' = 0
    /\ UNCHANGED <<environ, token, now, decoded, expires_read, token_init, decoded_at,
                   search_params, serialized>>

(***************************************************************************)
(* AccessTokenResponse and the clock.                                      *)
(***************************************************************************)
\* AccessTokenResponse(**body): refresh_token defaults to "".
AccessTokenResponse(body) ==
    [access_token |-> body.access_token, token_type |-> body.token_type,
     expires_in |-> body.expires_in, refresh_token |-> ""]

\* AccessTokenResponse.expires_at, a property: int(time.time()) + self.expires_in
expires_at(self) == now + self.expires_in

\* The caller decodes the body of the response get_access_token returned.
decode ==
    /\ call.op = "get_access_token"
    /\ call.exc = None
    /\ decoded' = Some(AccessTokenResponse(call.result[1].json[1]))
    /\ decoded_at' = now
    /\ expires_read' = None
    /\ UNCHANGED <<environ, token, rows, now, call, token_init, rows_before,
                   search_params, serialized, inserts_since_delete>>

\* The caller reads decoded.expires_at.
read_expires_at ==
    /\ decoded # None
    /\ expires_read' = Some(expires_at(decoded[1]))
    /\ UNCHANGED <<environ, token, rows, now, decoded, call, token_init, rows_before,
                   decoded_at, search_params, serialized, inserts_since_delete>>

\* A second passes.
tick ==
    /\ now < MaxTime
    /\ now' = now + 1
    /\ UNCHANGED <<environ, token, rows, decoded, expires_read, call, token_init,
                   rows_before, decoded_at, search_params, serialized, inserts_since_delete>>

(***************************************************************************)
(* The specifications.                                                     *)
(***************************************************************************)
\* A provider just constructed, over an empty token table.  The environment and
\* the token attribute are whatever the process was configured with.
Init ==
    /\ environ \in [WM_CLIENT_ID : EnvValues, WM_CLIENT_SECRET : EnvValues,
                    DEBUG : DebugValues]
    /\ token \in TokenValues
    /\ token_init = token
    /\ rows = <<>>
    /\ rows_before = <<>>
    /\ inserts_since_delete = 0
    /\ now = 0
    /\ decoded = None
    /\ decoded_at = 0
    /\ expires_read = None
    /\ search_params = None
    /\ serialized = None
    /\ call = Returned("none", None, <<>>, None)

\* The provider and the token store.
Next ==
    \/ get_access_token
    \/ search_titles
    \/ search_articles
    \/ get_random_article
    \/ create_token
    \/ delete_all_tokens

Spec == Init /\ [][Next]_vars

\* Token acquisition, decoding and the passing of time.
NextExpiry ==
    \/ get_access_token
    \/ decode
    \/ read_expires_at
    \/ tick

SpecExpiry == Init /\ [][NextExpiry]_vars

\* Building and serializing search parameters.
NextParams ==
    \/ new_params
    \/ read_as_dict

SpecParams == Init /\ [][NextParams]_vars

(***************************************************************************)
(* Properties.                                                             *)
(***************************************************************************)
ErrorStatuses == 400..599
SearchOps == {"search_titles", "search_articles"}
Falsy == {None, Some("")}

\* C1: when WM_CLIENT_ID or WM_CLIENT_SECRET is absent or empty, get_access_token
\* fails with the configuration error (ValueError in the code) and no request has
\* been sent by that call.
C1_MissingCredentialsFailBeforeRequest ==
    (/\ call.op = "get_access_token"
     /\ (environ.WM_CLIENT_ID \in Falsy \/ environ.WM_CLIENT_SECRET \in Falsy))
    => /\ call.exc = Some("ValueError")
       /\ call.requests = <<>>
       /\ call.response = None
       /\ call.result = None

C1_Witness ==
    /\ call.op = "get_access_token"
    /\ environ.WM_CLIENT_ID = Some("id")
    /\ environ.WM_CLIENT_SECRET = Some("")
    /\ call.exc = Some("ValueError")
    /\ call.requests = <<>>

\* C2: whenever upstream answers a provider operation with a 4xx or 5xx status, the
\* operation's last log line is an error line carrying that status code and reason
\* phrase, and the operation raises the HTTP status error instead of returning.
C2_ErrorStatusIsLoggedThenRaised ==
    (/\ call.op \in ProviderOps
     /\ call.upstream # None
     /\ call.upstream[1].status_code \in ErrorStatuses)
    => /\ call.exc = Some("HTTPStatusError")
       /\ call.result = None
       /\ call.log # <<>>
       /\ call.log[Len(call.log)].level = "ERROR"
       /\ call.log[Len(call.log)].args =
            <<call.upstream[1].status_code, call.upstream[1].reason_phrase>>

C2_Witness ==
    /\ call.op = "search_articles"
    /\ call.upstream # None
    /\ call.upstream[1].status_code = 500
    /\ call.exc = Some("HTTPStatusError")
    /\ call.log[Len(call.log)].args = <<500, "Internal Server Error">>

\* C3 as stated: get_random_article raises the HTTP status error whenever the
\* upstream response is not a redirect, a 200 included.
C3_Original ==
    (/\ call.op = "get_random_article"
     /\ call.upstream # None
     /\ ~has_redirect_location(call.upstream[1]))
    => call.exc = Some("HTTPStatusError")

\* C3, amended: get_random_article raises the HTTP status error exactly when the
\* upstream status is 4xx or 5xx; on any other status, the redirect and a
\* non-redirect success such as 200 alike, it returns the response it received.
C3_RaisesExactlyOnErrorStatus ==
    call.op = "get_random_article"
    => IF call.upstream[1].status_code \in ErrorStatuses
       THEN call.exc = Some("HTTPStatusError") /\ call.result = None
       ELSE call.exc = None /\ call.result = call.upstream

C3_Witness ==
    /\ call.op = "get_random_article"
    /\ call.upstream[1].status_code = 200
    /\ call.exc = None
    /\ call.result = call.upstream

\* C4 as stated: delete_all_tokens returns the number of rows that were in the
\* table immediately before the call.
C4_Original ==
    call.op = "delete_all_tokens" => call.result = Some(Len(rows_before))

\* C4, amended: delete_all_tokens returns None; the count in its last log line,
\* "Deleted {count} tokens", equals the number of rows that were in the table
\* immediately before the call (0 for the empty table).
C4_LogsCountOfRowsBefore ==
    call.op = "delete_all_tokens"
    => /\ call.result = None
       /\ call.exc = None
       /\ call.log[Len(call.log)].msg = "Deleted {} tokens"
       /\ call.log[Len(call.log)].args = <<Len(rows_before)>>
       /\ Len(call.log) = Len(rows_before) + 1

C4_Witness ==
    /\ call.op = "delete_all_tokens"
    /\ Len(rows_before) = 2
    /\ call.log[Len(call.log)].args = <<2>>

\* C5: the number of rows in the table always equals the number of create_token
\* calls committed since the last delete_all_tokens; right after delete_all_tokens
\* the table is empty.
C5_RowsEqualInsertsSinceDelete ==
    /\ Len(rows) = inserts_since_delete
    /\ call.op = "delete_all_tokens" => rows = <<>>

C5_Witness ==
    /\ call.op = "delete_all_tokens"
    /\ rows_before # <<>>
    /\ rows = <<>>
    /\ inserts_since_delete = 0

C7_SearchSendsWithOrWithoutToken ==
    call.op \in SearchOps
    => /\ Len(call.requests) = 1
       /\ call.requests[1].method = "GET"
       /\ IF token \in Falsy
          THEN /\ call.requests[1].headers = {}
               /\ \E i \in 1..Len(call.log) : call.log[i].level = "WARNING"
          ELSE /\ call.requests[1].headers = {<<"Authorization", "Bearer " \o token[1]>>}
               /\ token = Some("abc")
                    => call.requests[1].headers = {<<"Authorization", "Bearer abc">>}
               /\ \A i \in 1..Len(call.log) : call.log[i].level # "WARNING"

C7_Witness ==
    /\ call.op = "search_titles"
    /\ token = Some("")
    /\ Len(call.requests) = 1
    /\ call.requests[1].headers = {}

\* Where the i-th term starts in the joined string, less one.
RECURSIVE Offset(_, _)
Offset(terms, i) ==
    IF i = 1 THEN 0 ELSE Offset(terms, i - 1) + Len(terms[i - 1]) + 1

\* C8: for a non-empty sequence of terms, as_dict's q is the terms in input order,
\* each one whole, with one "+" after each term but the last and nothing else; and
\* as_dict's limit is the given limit.
C8_QueryIsTermsJoinedInOrder ==
    (serialized # None /\ search_params[1].search_terms # <<>>)
    => LET terms == search_params[1].search_terms
           n == Len(terms)
           q == serialized[1].q
       IN  /\ Len(q) = Offset(terms, n) + Len(terms[n])
           /\ \A i \in 1..n :
                 /\ SubSeq(q, Offset(terms, i) + 1, Offset(terms, i) + Len(terms[i]))
                       = terms[i]
                 /\ i < n => q[Offset(terms, i) + Len(terms[i]) + 1] = "+"
           /\ serialized[1].limit = search_params[1].limit

C8_Witness ==
    /\ serialized # None
    /\ search_params[1].search_terms = << <<"p", "y">>, <<"c">> >>
    /\ search_params[1].limit = 5
    /\ serialized[1].q = <<"p", "y", "+", "c">>
    /\ serialized[1].limit = 5

\* C9 as stated: expires_at is fixed when the response is decoded, as the time of
\* decoding plus expires_in, and every later read yields that value.
C9_Original ==
    expires_read # None => expires_read = Some(decoded_at + decoded[1].expires_in)

\* C10: the provider's token is the one it was constructed with, whatever
\* operations have run, and a provider operation leaves the rows of the token
\* table as they were when it began.
C10_ProviderOpsLeaveTokenAndStore ==
    /\ token = token_init
    /\ call.op \in ProviderOps => rows = rows_before

C10_Witness ==
    /\ call.op = "get_access_token"
    /\ call.exc = None
    /\ call.result[1].json[1].access_token = "abc"
    /\ token = None
    /\ rows # <<>>

====
